---------------------------- MODULE Spec2Model ----------------------------
(***************************************************************************)
(* Connectchat: the storage layer (MemStorage of server/storage.ts and     *)
(* DatabaseStorage of the later storage file) and the HTTP routes that     *)
(* drive it.                                                               *)
(*                                                                         *)
(* State: the four entity collections with their id counters, a clock,     *)
(* and one slot per in-flight HTTP request (its position in the handler,   *)
(* its body, its locals, its response).                                    *)
(*                                                                         *)
(* Scheduling.  A route handler is an async function; it can be suspended  *)
(* only at an await.  Every MemStorage method completes without I/O, so    *)
(* the awaits of a handler running on MemStorage resume in the microtask   *)
(* queue, which drains before the next request's callback runs: a handler  *)
(* on MemStorage runs to completion.  A DatabaseStorage method awaits a    *)
(* query, so handlers on DatabaseStorage interleave at every storage call  *)
(* (and inside createChat, which issues two statements).  A read that the  *)
(* database storage assembles from several queries is modelled as one      *)
(* snapshot.                                                               *)
(***************************************************************************)
EXTENDS Integers, Sequences, FiniteSets, TLC

\* Bounds of the model.
MaxUsers == 2
MaxChats == 2
MaxMembers == 4
MaxMessages == 2
MaxTime == 1
NumProcs == 2
MaxMemberIds == 2

Procs == 1..NumProcs
UserIds == 1..MaxUsers
ChatIds == 1..MaxChats
Usernames == {"alice", "bob"}
Backends == {"mem", "db"}
Contents == {"", " ", "hi"}

\* GET /api/chats/:chatId/messages without ?limit
DefaultLimit == 50

VARIABLES
    backend,              \* which IStorage implementation `storage` is
    now,                  \* the clock read by new Date() / defaultNow()
    users,                \* the user collection, in insertion order
    chats,                \* the chat collection, in insertion order
    chatMembers,          \* the membership rows, in insertion order
    messages,             \* the messages, in insertion order
    currentUserId,        \* next user id (counter / serial)
    currentChatId,        \* next chat id
    currentChatMemberId,  \* next membership row id
    currentMessageId,     \* next message id
    pc,                   \* pc[p]: where request p is in its handler
    req,                  \* req[p]: the request (route and body)
    local,                \* local[p]: the handler's local variables
    sent,                 \* the response the last step sent (op "none":
                          \* it sent none); sent.n is the parity of the
                          \* number of responses sent so far
    overlap               \* whether clients send a request while another is
                          \* in flight

store == <<users, chats, chatMembers, messages,
           currentUserId, currentChatId, currentChatMemberId, currentMessageId>>
vars == <<backend, now, users, chats, chatMembers, messages,
          currentUserId, currentChatId, currentChatMemberId, currentMessageId,
          pc, req, local, sent, overlap>>

-----------------------------------------------------------------------------
(* Helpers on sequences *)

Min(S) == CHOOSE x \in S : \A y \in S : x <= y

\* The subsequence of s at the indices in I, order kept.
RECURSIVE Pick(_, _)
Pick(s, I) ==
    IF I = {} THEN <<>>
    ELSE LET i == Min(I) IN <<s[i]>> \o Pick(s, I \ {i})

\* Array.prototype.reverse
RECURSIVE Reverse(_)
Reverse(s) == IF s = <<>> THEN <<>> ELSE Reverse(Tail(s)) \o <<Head(s)>>

\* Array.prototype.slice(0, n) for n >= 0
Slice0(s, n) == SubSeq(s, 1, IF n < Len(s) THEN n ELSE Len(s))

-----------------------------------------------------------------------------
(* Users *)

\* `undefined` where a User is expected.
NoUser == [id |-> 0, username |-> "", isOnline |-> FALSE, lastSeen |-> 0]

\* MemStorage.getUser / DatabaseStorage.getUser
getUser(id) ==
    LET I == {i \in DOMAIN users : users[i].id = id}
    IN IF I = {} THEN NoUser ELSE users[Min(I)]

getUserByUsername_NeverFinds(username) == NoUser

\* MemStorage.getUserByUsername / DatabaseStorage.getUserByUsername
getUserByUsername(username) ==
    LET I == {i \in DOMAIN users : users[i].username = username}
    IN IF I = {} THEN NoUser ELSE users[Min(I)]

\* MemStorage.createUser: the record it stores.
MemNewUser(username) ==
    [id |-> currentUserId, username |-> username, isOnline |-> TRUE, lastSeen |-> now]

\* DatabaseStorage.createUser: INSERT (username); is_online and last_seen take
\* the column defaults of the users table.
DbNewUser(username) ==
    [id |-> currentUserId, username |-> username, isOnline |-> FALSE, lastSeen |-> now]

DbUsernameUnique_Unchecked(username) == TRUE

\* users.username is declared .unique(): the INSERT raises when it is taken.
DbUsernameUnique(username) == \A i \in DOMAIN users : users[i].username # username

\* getOnlineUsers without the filter: every user.
getOnlineUsers_Everyone == users

\* MemStorage.getOnlineUsers / DatabaseStorage.getOnlineUsers
getOnlineUsers == Pick(users, {i \in DOMAIN users : users[i].isOnline})

\* The orders in which a SELECT without ORDER BY may return the rows s.
Orders(s) ==
    LET n == Len(s)
        perms == {f \in [1..n -> 1..n] : \A i, j \in 1..n : i # j => f[i] # f[j]}
    IN {[i \in 1..n |-> s[f[i]]] : f \in perms}

\* updateUserOnlineStatus without the match on the id: every user is updated.
UpdatedUsers_AllRows(userId, isOnline) ==
    [i \in DOMAIN users |-> [users[i] EXCEPT !.isOnline = isOnline, !.lastSeen = now]]

\* updateUserOnlineStatus that also marks every other user offline.
UpdatedUsers_OthersOffline(userId, isOnline) ==
    [i \in DOMAIN users |->
        IF users[i].id = userId
        THEN [users[i] EXCEPT !.isOnline = isOnline, !.lastSeen = now]
        ELSE [users[i] EXCEPT !.isOnline = FALSE]]

\* updateUserOnlineStatus: the collection after the call (unknown id: unchanged).
UpdatedUsers(userId, isOnline) ==
    [i \in DOMAIN users |->
        IF users[i].id = userId
        THEN [users[i] EXCEPT !.isOnline = isOnline, !.lastSeen = now]
        ELSE users[i]]

-----------------------------------------------------------------------------
(* Messages *)

\* `undefined` where a Message (with sender) is expected.
NoMessage == [id |-> 0, chatId |-> 0, senderId |-> 0, content |-> "", sentAt |-> 0,
              sender |-> NoUser]

\* messages.filter(message => message.chatId === chatId), insertion order.
MessagesOf(chatId) == Pick(messages, {i \in DOMAIN messages : messages[i].chatId = chatId})

\* Array.prototype.sort((a, b) => b.sentAt - a.sentAt): descending by sentAt,
\* stable, so equal timestamps keep their order in s.
RECURSIVE SortDescBySentAt(_)
SortDescBySentAt(s) ==
    IF s = <<>> THEN <<>>
    ELSE LET top == {i \in DOMAIN s : \A j \in DOMAIN s : s[j].sentAt <= s[i].sentAt}
             i == Min(top)
         IN <<s[i]>> \o SortDescBySentAt(Pick(s, DOMAIN s \ {i}))

\* .map(message => ({...message, sender: users.get(senderId)}))
WithSender(s) == [i \in DOMAIN s |->
    [id |-> s[i].id, chatId |-> s[i].chatId, senderId |-> s[i].senderId,
     content |-> s[i].content, sentAt |-> s[i].sentAt, sender |-> getUser(s[i].senderId)]]

\* getChatMessages without the filter on the sender: every message is kept.
HasSender_KeepAll(s) == s

\* .filter(message => message.sender)
HasSender(s) == Pick(s, {i \in DOMAIN s : s[i].sender.id # 0})

\* MemStorage.getChatMessages(chatId, limit), limit >= 0
MemGetChatMessages(chatId, limit) ==
    HasSender(WithSender(Reverse(Slice0(SortDescBySentAt(MessagesOf(chatId)), limit))))

\* The orders ORDER BY sent_at may produce: ascending by sentAt, rows of equal
\* sentAt in any order.
AscendingOrders(s) ==
    LET n == Len(s)
        perms == {f \in [1..n -> 1..n] : \A i, j \in 1..n : i # j => f[i] # f[j]}
    IN {[i \in 1..n |-> s[f[i]]] : f \in
          {g \in perms : \A i, j \in 1..n : i < j => s[g[i]].sentAt <= s[g[j]].sentAt}}

\* DatabaseStorage.getChatMessages(chatId, limit): the possible results of
\* SELECT ... INNER JOIN users ... WHERE chat_id ORDER BY sent_at LIMIT limit.
DbGetChatMessages(chatId, limit) ==
    {Slice0(o, limit) : o \in AscendingOrders(HasSender(WithSender(MessagesOf(chatId))))}

\* storage.getChatMessages(chatId, limit): every result the call may return.
getChatMessages(chatId, limit) ==
    IF backend = "mem" THEN {MemGetChatMessages(chatId, limit)}
    ELSE DbGetChatMessages(chatId, limit)

\* getChatWithMembers: const lastMessage = messages[0] after getChatMessages(id, 1)
LastMessages(chatId) ==
    {IF m = <<>> THEN NoMessage ELSE m[1] : m \in getChatMessages(chatId, 1)}

-----------------------------------------------------------------------------
(* Chats and members *)

NoName == ""

\* `undefined` where a Chat is expected.
NoChat == [id |-> 0, name |-> NoName, type |-> "", createdBy |-> 0, createdAt |-> 0]

\* `undefined` where a ChatWithMembers is expected.
NoChatWithMembers ==
    [id |-> 0, name |-> NoName, type |-> "", createdBy |-> 0, createdAt |-> 0,
     members |-> <<>>, lastMessage |-> NoMessage, unreadCount |-> 0]

\* MemStorage.getChat / DatabaseStorage.getChat
getChat(id) ==
    LET I == {i \in DOMAIN chats : chats[i].id = id}
    IN IF I = {} THEN NoChat ELSE chats[Min(I)]

\* getChatMembers without the chatId filter: the rows of every chat.
getChatMembers_AllRows(chatId) ==
    LET joined == [i \in DOMAIN chatMembers |->
                     [id |-> chatMembers[i].id, chatId |-> chatMembers[i].chatId,
                      userId |-> chatMembers[i].userId, joinedAt |-> chatMembers[i].joinedAt,
                      user |-> getUser(chatMembers[i].userId)]]
    IN Pick(joined, {i \in DOMAIN joined : joined[i].user.id # 0})

\* getChatMembers that lists a user once: the first row of each user.
getChatMembers_OncePerUser(chatId) ==
    LET rows == Pick(chatMembers, {i \in DOMAIN chatMembers :
                   /\ chatMembers[i].chatId = chatId
                   /\ \A j \in 1..(i - 1) :
                         ~(chatMembers[j].chatId = chatId
                           /\ chatMembers[j].userId = chatMembers[i].userId)})
        joined == [i \in DOMAIN rows |->
                     [id |-> rows[i].id, chatId |-> rows[i].chatId,
                      userId |-> rows[i].userId, joinedAt |-> rows[i].joinedAt,
                      user |-> getUser(rows[i].userId)]]
    IN Pick(joined, {i \in DOMAIN joined : joined[i].user.id # 0})

\* MemStorage.getChatMembers / DatabaseStorage.getChatMembers: the rows of the
\* chat joined to their user; a row whose user is missing is dropped.
getChatMembers(chatId) ==
    LET rows == Pick(chatMembers, {i \in DOMAIN chatMembers : chatMembers[i].chatId = chatId})
        joined == [i \in DOMAIN rows |->
                     [id |-> rows[i].id, chatId |-> rows[i].chatId,
                      userId |-> rows[i].userId, joinedAt |-> rows[i].joinedAt,
                      user |-> getUser(rows[i].userId)]]
    IN Pick(joined, {i \in DOMAIN joined : joined[i].user.id # 0})

\* getChatWithMembers(id) with the given lastMessage.
ChatWithMembers(id, lastMessage) ==
    LET chat == getChat(id) IN
    IF chat.id = 0 THEN NoChatWithMembers
    ELSE [id |-> chat.id, name |-> chat.name, type |-> chat.type,
          createdBy |-> chat.createdBy, createdAt |-> chat.createdAt,
          members |-> getChatMembers(id), lastMessage |-> lastMessage, unreadCount |-> 0]

\* storage.getChatWithMembers(id): every result the call may return.
getChatWithMembers(id) ==
    IF getChat(id).id = 0 THEN {NoChatWithMembers}
    ELSE {ChatWithMembers(id, m) : m \in LastMessages(id)}

\* getUserChats without the filter on undefined: an entry for every row.
UserChatIds_KeepMissing(userId) ==
    LET rows == Pick(chatMembers, {i \in DOMAIN chatMembers : chatMembers[i].userId = userId})
    IN [i \in DOMAIN rows |-> rows[i].chatId]

\* storage.getUserChats(userId) without the lastMessage fields: one entry per
\* membership row of the user, rows whose chat is missing dropped.
UserChatIds(userId) ==
    LET rows == Pick(chatMembers, {i \in DOMAIN chatMembers : chatMembers[i].userId = userId})
    IN Pick([i \in DOMAIN rows |-> rows[i].chatId],
            {i \in DOMAIN rows : getChat(rows[i].chatId).id # 0})

\* storage.getUserChats(userId): every result the call may return.  The
\* database selects the rows of the user without ORDER BY.
getUserChats(userId) ==
    LET ids == UserChatIds(userId)
        assembled(order) ==
            {s \in [DOMAIN order -> UNION {getChatWithMembers(order[i]) : i \in DOMAIN order}] :
                \A i \in DOMAIN order : s[i] \in getChatWithMembers(order[i])}
    IN UNION {assembled(order) : order \in (IF backend = "mem" THEN {ids} ELSE Orders(ids))}

\* The predicate of the find without the checks on the members.
IsDirectWith_TypeOnly(chatId, userId2) == getChat(chatId).type = "direct"

\* The predicate of user1Chats.find in POST /api/chats/direct.
IsDirectWith(chatId, userId2) ==
    /\ getChat(chatId).type = "direct"
    /\ Len(getChatMembers(chatId)) = 2
    /\ \E i \in DOMAIN getChatMembers(chatId) : getChatMembers(chatId)[i].userId = userId2

\* A find that matches no chat.
ExistingDirect_NotFound(userId1, userId2) == 0

\* user1Chats.find(...): the id of the first match, 0 for undefined.
ExistingDirect(userId1, userId2) ==
    LET ids == UserChatIds(userId1)
        I == {i \in DOMAIN ids : IsDirectWith(ids[i], userId2)}
    IN IF I = {} THEN 0 ELSE ids[Min(I)]

\* MemStorage.createChat / the INSERT of DatabaseStorage.createChat: the row.
NewChat(insert) ==
    [id |-> currentChatId, name |-> insert.name, type |-> insert.type,
     createdBy |-> insert.createdBy, createdAt |-> now]

\* addChatMember: the row it stores.
NewMember(chatId, userId) ==
    [id |-> currentChatMemberId, chatId |-> chatId, userId |-> userId, joinedAt |-> now]

\* chats.created_by, chat_members.user_id, messages.sender_id REFERENCES users.id:
\* on the database storage an INSERT naming no stored user raises.
UserFkHolds(userId) == backend = "mem" \/ getUser(userId).id # 0

\* chat_members.chat_id, messages.chat_id REFERENCES chats.id
ChatFkHolds(chatId) == backend = "mem" \/ getChat(chatId).id # 0

-----------------------------------------------------------------------------
(* Requests *)

Idle == [op |-> "none"]
NoLocal == [none |-> TRUE]
NoResp(n) == [op |-> "none", proc |-> 0, status |-> 0, n |-> n]

OthersIdle(p) == \A q \in Procs \ {p} : pc[q] = "idle"

\* A handler may take a step.  On the database storage handlers interleave at
\* their storage calls; on MemStorage a handler runs to completion.  When the
\* clients do not overlap their requests, one client sends them in sequence.
CanStep(p) ==
    IF overlap /\ backend = "db" THEN TRUE
    ELSE OthersIdle(p) /\ (overlap \/ p = 1)

\* res.json / res.status().json: the handler of request r ends.
Respond(p, r, answer) ==
    /\ pc' = [pc EXCEPT ![p] = "idle"]
    /\ req' = [req EXCEPT ![p] = Idle]
    /\ local' = [local EXCEPT ![p] = NoLocal]
    /\ sent' = [op |-> r.op, proc |-> p, req |-> r, n |-> 1 - sent.n] @@ answer

\* The handler of request r goes on to `label`.
Goto(p, r, label, l) ==
    /\ pc' = [pc EXCEPT ![p] = label]
    /\ req' = [req EXCEPT ![p] = r]
    /\ local' = [local EXCEPT ![p] = l]
    /\ sent' = NoResp(sent.n)

-----------------------------------------------------------------------------
(* POST /api/users *)

\* Line 11, insertUserSchema.parse throws: 400.
RegisterInvalid(p) ==
    /\ pc[p] = "idle"
    /\ CanStep(p)
    /\ Respond(p, [op |-> "register", username |-> "", valid |-> FALSE],
               [status |-> 400, message |-> "Invalid user data"])
    /\ UNCHANGED <<backend, overlap, now, store>>

\* Lines 11-17: parse, look the username up, 400 when it is taken.
RegisterCheck(p, username) ==
    /\ pc[p] = "idle"
    /\ CanStep(p)
    /\ LET r == [op |-> "register", username |-> username, valid |-> TRUE] IN
       IF getUserByUsername(username).id # 0
       THEN Respond(p, r, [status |-> 400, message |-> "Username already taken"])
       ELSE Goto(p, r, "reg_create", NoLocal)
    /\ UNCHANGED <<backend, overlap, now, store>>

\* Lines 19-23: storage.createUser, respond with the user; a throw is a 400.
RegisterCreate(p) ==
    /\ pc[p] = "reg_create"
    /\ CanStep(p)
    /\ currentUserId <= MaxUsers
    /\ currentUserId' = currentUserId + 1
    /\ LET username == req[p].username IN
       IF backend = "mem"
       THEN /\ users' = Append(users, MemNewUser(username))
            /\ Respond(p, req[p], [status |-> 200, user |-> MemNewUser(username)])
       ELSE IF DbUsernameUnique(username)
       THEN /\ users' = Append(users, DbNewUser(username))
            /\ Respond(p, req[p], [status |-> 200, user |-> DbNewUser(username)])
       ELSE \* unique violation: the serial value is consumed, no row is stored
            /\ users' = users
            /\ Respond(p, req[p], [status |-> 400, message |-> "Invalid user data"])
    /\ UNCHANGED <<backend, overlap, now, chats, chatMembers, messages,
                   currentChatId, currentChatMemberId, currentMessageId>>

-----------------------------------------------------------------------------
(* PUT /api/users/:id/status *)

SetStatus(p, userId, isOnline) ==
    /\ pc[p] = "idle"
    /\ CanStep(p)
    /\ users' = UpdatedUsers(userId, isOnline)
    /\ Respond(p, [op |-> "status", userId |-> userId, isOnline |-> isOnline],
               [status |-> 200, success |-> TRUE])
    /\ UNCHANGED <<backend, overlap, now, chats, chatMembers, messages,
                   currentUserId, currentChatId, currentChatMemberId, currentMessageId>>

-----------------------------------------------------------------------------
(* GET /api/users/online *)

\* Lines 27-29: respond with storage.getOnlineUsers(); MemStorage answers in
\* insertion order, the database in any order.
GetOnline(p) ==
    /\ pc[p] = "idle"
    /\ CanStep(p)
    /\ \E body \in (IF backend = "mem" THEN {getOnlineUsers} ELSE Orders(getOnlineUsers)) :
          Respond(p, [op |-> "online"], [status |-> 200, body |-> body])
    /\ UNCHANGED <<backend, overlap, now, store>>

-----------------------------------------------------------------------------
(* storage.createChat, as the routes call it.  local[p].insert is the       *)
(* argument, local[p].next the handler's label after the call and           *)
(* local[p].errStatus the status its catch block answers with.              *)

\* MemStorage.createChat (chat and creator row in one synchronous run), and
\* the first statement of DatabaseStorage.createChat (INSERT INTO chats).
CreateChat(p) ==
    /\ pc[p] = "createChat"
    /\ CanStep(p)
    /\ currentChatId <= MaxChats
    /\ backend = "mem" => currentChatMemberId <= MaxMembers
    /\ currentChatId' = currentChatId + 1
    /\ LET l == local[p]
           chat == NewChat(l.insert)
       IN IF backend = "mem"
          THEN /\ chats' = Append(chats, chat)
               /\ chatMembers' = Append(chatMembers, NewMember(chat.id, l.insert.createdBy))
               /\ currentChatMemberId' = currentChatMemberId + 1
               /\ Goto(p, req[p], l.next, [l EXCEPT !.chatId = chat.id])
          ELSE IF UserFkHolds(l.insert.createdBy)
          THEN /\ chats' = Append(chats, chat)
               /\ UNCHANGED <<chatMembers, currentChatMemberId>>
               /\ Goto(p, req[p], "createChat_creator", [l EXCEPT !.chatId = chat.id])
          ELSE \* foreign key violation: the serial value is consumed
               /\ UNCHANGED <<chats, chatMembers, currentChatMemberId>>
               /\ Respond(p, req[p], [status |-> l.errStatus, message |-> l.errMessage])
    /\ UNCHANGED <<backend, overlap, now, users, messages, currentUserId, currentMessageId>>

\* The second statement of DatabaseStorage.createChat: addChatMember(newChat.id,
\* chat.createdBy).  The chat and the creator are stored, so the insert succeeds.
CreateChatCreator(p) ==
    /\ pc[p] = "createChat_creator"
    /\ CanStep(p)
    /\ currentChatMemberId <= MaxMembers
    /\ LET l == local[p] IN
       /\ chatMembers' = Append(chatMembers, NewMember(l.chatId, l.insert.createdBy))
       /\ currentChatMemberId' = currentChatMemberId + 1
       /\ Goto(p, req[p], l.next, l)
    /\ UNCHANGED <<backend, overlap, now, users, chats, messages, currentUserId,
                   currentChatId, currentMessageId>>

-----------------------------------------------------------------------------
(* POST /api/chats *)

\* The lists of at most n elements of S.
RECURSIVE SeqsUpTo(_, _)
SeqsUpTo(S, n) ==
    IF n = 0 THEN {<<>>}
    ELSE LET shorter == SeqsUpTo(S, n - 1)
         IN shorter \cup {Append(s, x) : s \in {t \in shorter : Len(t) = n - 1}, x \in S}

\* Lines 59-62, the extended insertChatSchema throws: 400.
PostChatInvalid(p) ==
    /\ pc[p] = "idle"
    /\ CanStep(p)
    /\ Respond(p, [op |-> "chat", valid |-> FALSE],
               [status |-> 400, message |-> "Invalid chat data"])
    /\ UNCHANGED <<backend, overlap, now, store>>

\* Lines 58-64: parse the body, then call storage.createChat.  hasMemberIds is
\* whether the body carries the optional memberIds.
PostChat(p, type, name, createdBy, hasMemberIds, memberIds) ==
    /\ pc[p] = "idle"
    /\ CanStep(p)
    /\ Goto(p, [op |-> "chat", type |-> type, name |-> name, createdBy |-> createdBy,
                hasMemberIds |-> hasMemberIds, memberIds |-> memberIds, valid |-> TRUE],
            "createChat",
            [insert |-> [type |-> type, name |-> name, createdBy |-> createdBy],
             chatId |-> 0, i |-> 1, next |-> "chat_members",
             errStatus |-> 400, errMessage |-> "Invalid chat data"])
    /\ UNCHANGED <<backend, overlap, now, store>>

\* The loop treating no memberId as the creator's.
IsCreator_Never(memberId, createdBy) == FALSE

\* Line 69: memberId !== chatData.createdBy, negated.
IsCreator(memberId, createdBy) == memberId = createdBy

\* Lines 67-73: one iteration of the memberIds loop.
PostChatAddMember(p) ==
    /\ pc[p] = "chat_members"
    /\ CanStep(p)
    /\ req[p].hasMemberIds
    /\ local[p].i <= Len(req[p].memberIds)
    /\ LET l == local[p]
           memberId == req[p].memberIds[l.i]
       IN IF IsCreator(memberId, req[p].createdBy)
          THEN /\ UNCHANGED <<chatMembers, currentChatMemberId>>
               /\ Goto(p, req[p], "chat_members", [l EXCEPT !.i = l.i + 1])
          ELSE /\ currentChatMemberId <= MaxMembers
               /\ currentChatMemberId' = currentChatMemberId + 1
               /\ IF UserFkHolds(memberId)
                  THEN /\ chatMembers' = Append(chatMembers, NewMember(l.chatId, memberId))
                       /\ Goto(p, req[p], "chat_members", [l EXCEPT !.i = l.i + 1])
                  ELSE /\ chatMembers' = chatMembers
                       /\ Respond(p, req[p], [status |-> 400, message |-> "Invalid chat data"])
    /\ UNCHANGED <<backend, overlap, now, users, chats, messages, currentUserId,
                   currentChatId, currentMessageId>>

\* Lines 75-76: respond with getChatWithMembers(chat.id).
PostChatRespond(p) ==
    /\ pc[p] = "chat_members"
    /\ CanStep(p)
    /\ req[p].hasMemberIds => local[p].i > Len(req[p].memberIds)
    /\ \E body \in getChatWithMembers(local[p].chatId) :
          Respond(p, req[p], [status |-> 200, body |-> body])
    /\ UNCHANGED <<backend, overlap, now, store>>

-----------------------------------------------------------------------------
(* POST /api/chats/direct *)

\* Lines 126-138: look for an existing direct chat; answer with it if found,
\* else go on to create one.
DirectLookup(p, userId1, userId2) ==
    /\ pc[p] = "idle"
    /\ CanStep(p)
    /\ LET r == [op |-> "direct", userId1 |-> userId1, userId2 |-> userId2]
           existing == ExistingDirect(userId1, userId2)
       IN IF existing # 0
          THEN \E m \in LastMessages(existing) :
                  Respond(p, r, [status |-> 200, body |-> ChatWithMembers(existing, m)])
          ELSE Goto(p, r, "createChat",
                    [insert |-> [type |-> "direct", name |-> NoName, createdBy |-> userId1],
                     chatId |-> 0, i |-> 1, next |-> "direct_add",
                     errStatus |-> 500, errMessage |-> "Failed to create direct chat"])
    /\ UNCHANGED <<backend, overlap, now, store>>

\* Line 147: storage.addChatMember(chat.id, userId2).
DirectAdd(p) ==
    /\ pc[p] = "direct_add"
    /\ CanStep(p)
    /\ currentChatMemberId <= MaxMembers
    /\ currentChatMemberId' = currentChatMemberId + 1
    /\ IF UserFkHolds(req[p].userId2)
       THEN /\ chatMembers' = Append(chatMembers, NewMember(local[p].chatId, req[p].userId2))
            /\ Goto(p, req[p], "direct_respond", local[p])
       ELSE /\ chatMembers' = chatMembers
            /\ Respond(p, req[p], [status |-> 500, message |-> "Failed to create direct chat"])
    /\ UNCHANGED <<backend, overlap, now, users, chats, messages, currentUserId,
                   currentChatId, currentMessageId>>

\* Lines 149-150: respond with getChatWithMembers(chat.id).
DirectRespond(p) ==
    /\ pc[p] = "direct_respond"
    /\ CanStep(p)
    /\ \E body \in getChatWithMembers(local[p].chatId) :
          Respond(p, req[p], [status |-> 200, body |-> body])
    /\ UNCHANGED <<backend, overlap, now, store>>

-----------------------------------------------------------------------------
(* POST /api/messages, GET /api/chats/:chatId/messages *)

\* createMessage without the counter: every message takes the first id.
NewMessage_FirstId(chatId, senderId, content) ==
    [id |-> 1, chatId |-> chatId, senderId |-> senderId, content |-> content, sentAt |-> now]

\* createMessage: the message it stores.
NewMessage(chatId, senderId, content) ==
    [id |-> currentMessageId, chatId |-> chatId, senderId |-> senderId,
     content |-> content, sentAt |-> now]

\* A store that holds the new message alone.
messagesSet_Replace(message) == <<message>>

\* createMessage: this.messages.set(id, message) / INSERT INTO messages.
messagesSet(message) == Append(messages, message)

\* Lines 112-114, the extended insertMessageSchema throws: 400.
PostMessageInvalid(p) ==
    /\ pc[p] = "idle"
    /\ CanStep(p)
    /\ Respond(p, [op |-> "message", valid |-> FALSE],
               [status |-> 400, message |-> "Invalid message data"])
    /\ UNCHANGED <<backend, overlap, now, store>>

\* Lines 112-120: parse the body (chatId a number, content a string, senderId
\* a number), storage.createMessage, respond with the message.
PostMessage(p, chatId, senderId, content) ==
    /\ pc[p] = "idle"
    /\ CanStep(p)
    /\ currentMessageId <= MaxMessages
    /\ currentMessageId' = currentMessageId + 1
    /\ LET r == [op |-> "message", chatId |-> chatId, senderId |-> senderId,
                 content |-> content, valid |-> TRUE]
           message == NewMessage(chatId, senderId, content)
       IN IF ChatFkHolds(chatId) /\ UserFkHolds(senderId)
          THEN /\ messages' = messagesSet(message)
               /\ Respond(p, r, [status |-> 200, body |-> message])
          ELSE \* foreign key violation: the serial value is consumed
               /\ messages' = messages
               /\ Respond(p, r, [status |-> 400, message |-> "Invalid message data"])
    /\ UNCHANGED <<backend, overlap, now, users, chats, chatMembers,
                   currentUserId, currentChatId, currentChatMemberId>>

\* Lines 99-103: respond with storage.getChatMessages(chatId, limit), the limit
\* 50 when the query carries none.
GetMessages(p, chatId, hasLimit, limit) ==
    /\ pc[p] = "idle"
    /\ CanStep(p)
    /\ LET r == [op |-> "messages", chatId |-> chatId,
                 limit |-> IF hasLimit THEN limit ELSE DefaultLimit]
       IN \E result \in getChatMessages(r.chatId, r.limit) :
             Respond(p, r, [status |-> 200, body |-> result])
    /\ UNCHANGED <<backend, overlap, now, store>>

-----------------------------------------------------------------------------
(* GET /api/users/:userId/chats, GET /api/chats/:chatId *)

\* Lines 49-51: respond with storage.getUserChats(userId).
GetUserChats(p, userId) ==
    /\ pc[p] = "idle"
    /\ CanStep(p)
    /\ \E body \in getUserChats(userId) :
          Respond(p, [op |-> "userChats", userId |-> userId], [status |-> 200, body |-> body])
    /\ UNCHANGED <<backend, overlap, now, store>>

\* Lines 84-91: respond with storage.getChatWithMembers(chatId), 404 when it
\* is undefined.
GetChat(p, chatId) ==
    /\ pc[p] = "idle"
    /\ CanStep(p)
    /\ LET r == [op |-> "getChat", chatId |-> chatId] IN
       \E chat \in getChatWithMembers(chatId) :
          IF chat.id = 0
          THEN Respond(p, r, [status |-> 404, message |-> "Chat not found"])
          ELSE Respond(p, r, [status |-> 200, body |-> chat])
    /\ UNCHANGED <<backend, overlap, now, store>>

-----------------------------------------------------------------------------
(* IStorage.addChatMember, called on the storage directly *)

\* MemStorage.addChatMember stores the row whatever the ids; the INSERT of
\* DatabaseStorage.addChatMember raises unless both ids are stored.
AddChatMember(p, chatId, userId) ==
    /\ pc[p] = "idle"
    /\ CanStep(p)
    /\ currentChatMemberId <= MaxMembers
    /\ currentChatMemberId' = currentChatMemberId + 1
    /\ LET r == [op |-> "addChatMember", chatId |-> chatId, userId |-> userId] IN
       IF ChatFkHolds(chatId) /\ UserFkHolds(userId)
       THEN /\ chatMembers' = Append(chatMembers, NewMember(chatId, userId))
            /\ Respond(p, r, [status |-> 200])
       ELSE /\ chatMembers' = chatMembers
            /\ Respond(p, r, [status |-> 500, message |-> "insert or update violates foreign key constraint"])
    /\ UNCHANGED <<backend, overlap, now, users, chats, messages, currentUserId,
                   currentChatId, currentMessageId>>

-----------------------------------------------------------------------------
(* The clock *)

Tick ==
    /\ now < MaxTime
    /\ now' = now + 1
    /\ sent' = NoResp(sent.n)
    /\ UNCHANGED <<backend, overlap, store, pc, req, local>>

-----------------------------------------------------------------------------
(* Specifications *)

InitStore ==
    /\ backend \in Backends
    /\ now = 0
    /\ users = <<>>
    /\ chats = <<>>
    /\ chatMembers = <<>>
    /\ messages = <<>>
    /\ currentUserId = 1
    /\ currentChatId = 1
    /\ currentChatMemberId = 1
    /\ currentMessageId = 1
    /\ pc = [p \in Procs |-> "idle"]
    /\ req = [p \in Procs |-> Idle]
    /\ local = [p \in Procs |-> NoLocal]
    /\ sent = NoResp(0)

\* Clients that send requests while others are in flight.
Init == InitStore /\ overlap = TRUE

\* Clients that wait for each response before the next request.
InitSeq == InitStore /\ overlap = FALSE

Register(p) ==
    \/ RegisterInvalid(p)
    \/ \E u \in Usernames : RegisterCheck(p, u)
    \/ RegisterCreate(p)

Status(p) == \E id \in UserIds, b \in BOOLEAN : SetStatus(p, id, b)

ChatTypes == {"direct", "group"}

\* The display name sent with a chat of the given type.
NameFor(type) == IF type = "group" THEN "Team" ELSE NoName

Chat(p) ==
    \/ PostChatInvalid(p)
    \/ \E type \in ChatTypes, createdBy \in UserIds :
          PostChat(p, type, NameFor(type), createdBy, FALSE, <<>>)
    \/ \E type \in ChatTypes, createdBy \in UserIds, memberIds \in SeqsUpTo(UserIds, MaxMemberIds) :
          PostChat(p, type, NameFor(type), createdBy, TRUE, memberIds)
    \/ PostChatAddMember(p)
    \/ PostChatRespond(p)

Direct(p) ==
    \/ \E a, b \in UserIds : DirectLookup(p, a, b)
    \/ DirectAdd(p)
    \/ DirectRespond(p)

StorageCreateChat(p) ==
    \/ CreateChat(p)
    \/ CreateChatCreator(p)

\* Posting messages, blank ones among them.
Post(p) ==
    \/ PostMessageInvalid(p)
    \/ \E chatId \in ChatIds, senderId \in UserIds, content \in Contents :
          PostMessage(p, chatId, senderId, content)

\* Posting messages and reading them back.
Message(p) ==
    \/ \E chatId \in ChatIds, senderId \in UserIds : PostMessage(p, chatId, senderId, "hi")
    \/ \E chatId \in ChatIds : GetMessages(p, chatId, FALSE, 0)
    \/ \E chatId \in ChatIds, limit \in 1..MaxMessages : GetMessages(p, chatId, TRUE, limit)
    \/ \E chatId \in ChatIds : GetChat(p, chatId)

\* A group chat without memberIds.
GroupChat(p) ==
    \/ \E createdBy \in UserIds : PostChat(p, "group", NameFor("group"), createdBy, FALSE, <<>>)
    \/ PostChatRespond(p)

\* Registration and presence.
NextUsers == Tick \/ \E p \in Procs : Register(p) \/ Status(p) \/ GetOnline(p)

SpecUsers == Init /\ [][NextUsers]_vars

\* Registration and the chat routes.
NextChats == \E p \in Procs : Register(p) \/ Chat(p) \/ Direct(p) \/ StorageCreateChat(p)

SpecChatsSeq == InitSeq /\ [][NextChats]_vars

\* Registration, group chats and the message routes, as time passes.
NextMsgs == Tick \/ \E p \in Procs : Register(p) \/ GroupChat(p) \/ StorageCreateChat(p) \/ Message(p)

SpecMsgs == InitSeq /\ [][NextMsgs]_vars

\* Registration, group chats and the posting of messages.
NextPost == \E p \in Procs : Register(p) \/ GroupChat(p) \/ StorageCreateChat(p) \/ Post(p)

SpecPost == InitSeq /\ [][NextPost]_vars

\* Reading chats back.
ReadChats(p) ==
    \/ \E userId \in UserIds : GetUserChats(p, userId)
    \/ \E chatId \in ChatIds : GetChat(p, chatId)

\* Registration, group chats, memberships added on the storage, and the chat
\* reads.
NextStorage ==
    \E p \in Procs :
        \/ Register(p) \/ GroupChat(p) \/ StorageCreateChat(p) \/ ReadChats(p)
        \/ \E chatId \in ChatIds, userId \in UserIds : AddChatMember(p, chatId, userId)

SpecStorage == InitSeq /\ [][NextStorage]_vars

\* Registration, presence, group chats and the posting of messages.
NextStore ==
    \E p \in Procs :
        \/ Register(p) \/ Status(p) \/ GroupChat(p) \/ StorageCreateChat(p)
        \/ \E chatId \in ChatIds, senderId \in UserIds : PostMessage(p, chatId, senderId, "hi")

SpecStore == InitSeq /\ [][NextStore]_vars

\* Registration and the direct-chat route.
NextDirect == \E p \in Procs : Register(p) \/ Direct(p) \/ StorageCreateChat(p)

SpecDirect == Init /\ [][NextDirect]_vars

-----------------------------------------------------------------------------
(* Registration *)

\* Some stored user carries the username.
Taken(username) == \E i \in DOMAIN users : users[i].username = username

\* This step is slot p receiving POST /api/users {username}.
RegisterStarts(p, username) ==
    /\ pc[p] = "idle"
    /\ \/ pc'[p] = "reg_create" /\ req'[p].username = username
       \/ /\ sent'.op = "register" /\ sent'.proc = p
          /\ sent'.req.valid /\ sent'.req.username = username

\* C5: registering a username that a stored user already carries is answered
\* with 400 "Username already taken", and the request leaves the user
\* collection and the user id counter as they were.
C5_SecondRegistrationRejected ==
    [][\A p \in Procs, u \in Usernames :
          (Taken(u) /\ RegisterStarts(p, u)) =>
              /\ sent'.op = "register" /\ sent'.proc = p
              /\ sent'.status = 400
              /\ sent'.message = "Username already taken"
              /\ users' = users
              /\ currentUserId' = currentUserId]_vars

\* A registration of a stored username has just been refused.
C5_Witness ==
    /\ sent.op = "register"
    /\ sent.status = 400
    /\ sent.message = "Username already taken"
    /\ Taken(sent.req.username)

\* C6: no two stored users carry the same username, whatever the order in
\* which the lookups and inserts of concurrent registrations run.
C6_UsernamesUnique ==
    \A i, j \in DOMAIN users : users[i].username = users[j].username => i = j

\* Two registrations of one username both passed the lookup; the insert of
\* the second has just been refused by the unique constraint.
C6_Witness ==
    /\ sent.op = "register"
    /\ sent.req.valid
    /\ sent.status = 400
    /\ sent.message = "Invalid user data"
    /\ Taken(sent.req.username)

-----------------------------------------------------------------------------
(* Reading messages back *)

\* The last k elements of s (all of s when it has fewer).
LastK(s, k) == SubSeq(s, IF k < Len(s) THEN Len(s) - k + 1 ELSE 1, Len(s))

\* Every message of the chat was sent by a stored user.
SendersStored(chatId) ==
    \A i \in DOMAIN messages :
        messages[i].chatId = chatId => getUser(messages[i].senderId).id # 0

\* No two messages of the chat carry the same timestamp.
DistinctTimes(chatId) ==
    \A i, j \in DOMAIN messages :
        (/\ messages[i].chatId = chatId /\ messages[j].chatId = chatId
         /\ messages[i].sentAt = messages[j].sentAt) => i = j

\* The last step answered GET /api/chats/:chatId/messages.
MessagesRead == sent.op = "messages" /\ sent.status = 200

\* C7: a read of a chat with limit k answers with the k most recently appended
\* messages of the chat (all of them when k is at least their number), in the
\* order in which they were appended.  Stated for chats whose messages carry
\* distinct timestamps and stored senders.
C7_RecentInAppendOrder ==
    (/\ MessagesRead
     /\ SendersStored(sent.req.chatId)
     /\ DistinctTimes(sent.req.chatId)) =>
        sent.body = LastK(WithSender(MessagesOf(sent.req.chatId)), sent.req.limit)

\* C8: MemStorage answers messages of equal timestamp in insertion order
\* (lower id first), and when the limit cuts through such a group the answer
\* keeps the later-inserted messages of the group.  Stated for stored chats
\* whose messages carry stored senders.
C8_TiesInInsertionOrder ==
    (/\ MessagesRead /\ backend = "mem"
     /\ getChat(sent.req.chatId).id # 0
     /\ SendersStored(sent.req.chatId)) =>
        /\ \A i, j \in DOMAIN sent.body :
              (i < j /\ sent.body[i].sentAt = sent.body[j].sentAt) =>
                  sent.body[i].id < sent.body[j].id
        /\ \A i \in DOMAIN sent.body, k \in DOMAIN messages :
              (/\ messages[k].chatId = sent.req.chatId
               /\ messages[k].sentAt = sent.body[i].sentAt
               /\ messages[k].id > sent.body[i].id) =>
                  \E j \in DOMAIN sent.body : sent.body[j].id = messages[k].id

\* Empty or made of whitespace only.
Blank(content) == content \in {"", " "}

\* C9: a POST /api/messages whose content is blank is answered with an error
\* and stores no message.  Stated for requests that name a stored chat and a
\* stored sender.
C9_BlankContentRejected ==
    (/\ sent.op = "message" /\ sent.req.valid /\ Blank(sent.req.content)
     /\ getChat(sent.req.chatId).id # 0
     /\ getUser(sent.req.senderId).id # 0) =>
        /\ sent.status = 400
        /\ \A i \in DOMAIN messages : ~Blank(messages[i].content)

-----------------------------------------------------------------------------
(* Direct chats *)

Stored(userId) == getUser(userId).id # 0

AllIdle == \A p \in Procs : pc[p] = "idle"

\* The membership rows of the chat.
RowsOf(chatId) == {i \in DOMAIN chatMembers : chatMembers[i].chatId = chatId}

\* The chats of type 'direct' whose membership rows name exactly a and b.
DirectChatsBetween(a, b) ==
    {chats[i].id : i \in {j \in DOMAIN chats :
        /\ chats[j].type = "direct"
        /\ {chatMembers[k].userId : k \in RowsOf(chats[j].id)} = {a, b}}}

\* The last step answered POST /api/chats/direct {userId1, userId2} with a chat.
DirectAnswered(userId1, userId2) ==
    /\ sent.op = "direct" /\ sent.status = 200
    /\ sent.req.userId1 = userId1 /\ sent.req.userId2 = userId2

\* This step is slot p receiving POST /api/chats/direct {userId1, userId2}.
DirectStarts(p, userId1, userId2) ==
    /\ pc[p] = "idle"
    /\ \/ /\ pc'[p] = "createChat" /\ req'[p].op = "direct"
          /\ req'[p].userId1 = userId1 /\ req'[p].userId2 = userId2
       \/ /\ sent'.op = "direct" /\ sent'.proc = p
          /\ sent'.req.userId1 = userId1 /\ sent'.req.userId2 = userId2

\* The request that starts in this step is answered there and then with the
\* chat the last response carried, and leaves one direct chat between a and b.
SameChatAgain(a, b) ==
    /\ sent'.op = "direct" /\ sent'.status = 200
    /\ sent'.body.id = sent.body.id
    /\ Cardinality(DirectChatsBetween(a, b)') = 1

\* C1: for stored users a # b, a POST /api/chats/direct for (a, b) that
\* follows an answered one for (a, b) is answered with the same chat id, and
\* exactly one direct chat with the members a and b exists afterwards.
C1_DirectTwiceSameChat ==
    [][\A p \in Procs, a, b \in UserIds :
          (/\ a # b /\ Stored(a) /\ Stored(b)
           /\ DirectAnswered(a, b)
           /\ DirectStarts(p, a, b)) => SameChatAgain(a, b)]_vars

\* C2: on the database storage, once the requests in flight have been
\* answered, at most one direct chat exists between any two users, however
\* the storage calls of concurrent POST /api/chats/direct requests interleave.
C2_NoSecondDirectChat ==
    (backend = "db" /\ AllIdle) =>
        \A a, b \in UserIds : a # b => Cardinality(DirectChatsBetween(a, b)) <= 1

\* C3: for stored users a # b, a POST /api/chats/direct for (b, a) that
\* follows an answered one for (a, b) is answered with the same chat id, and
\* exactly one direct chat between the two exists afterwards.
C3_DirectUnorderedPair ==
    [][\A p \in Procs, a, b \in UserIds :
          (/\ a # b /\ Stored(a) /\ Stored(b)
           /\ DirectAnswered(a, b)
           /\ DirectStarts(p, b, a)) => SameChatAgain(b, a)]_vars

\* C4: whenever no request is in flight, every chat of type 'direct' has
\* exactly two membership rows, and the two name different users.
C4_DirectHasTwoDistinctMembers ==
    AllIdle =>
        \A i \in DOMAIN chats :
            chats[i].type = "direct" =>
                /\ Cardinality(RowsOf(chats[i].id)) = 2
                /\ Cardinality({chatMembers[k].userId : k \in RowsOf(chats[i].id)}) = 2

-----------------------------------------------------------------------------
(* createChat *)

\* storage.createChat has just returned to the handler in slot p.
CreateChatReturned(p) ==
    \/ pc[p] = "chat_members" /\ local[p].i = 1
    \/ pc[p] = "direct_add"

\* getChatWithMembers(chatId) answers a member list of one entry, the user.
OnlyMember(chatId, userId) ==
    \A c \in getChatWithMembers(chatId) :
        Len(c.members) = 1 /\ c.members[1].userId = userId

-----------------------------------------------------------------------------
(* The creator's membership *)

\* Another request can be received in this state.
Observable == \E q \in Procs : pc[q] = "idle" /\ CanStep(q)

\* The chat has a membership row for its creator.
HasCreatorRow(chat) ==
    \E k \in RowsOf(chat.id) : chatMembers[k].userId = chat.createdBy

\* C11: in every state in which another request can be received, every stored
\* chat has a membership row for its creator.
C11_ChatHasCreatorRow ==
    Observable => \A i \in DOMAIN chats : HasCreatorRow(chats[i])

-----------------------------------------------------------------------------
(* Presence *)

\* The last step answered POST /api/users with the created user.
UserCreated == sent.op = "register" /\ sent.status = 200

\* C12: the user that createUser returns is online, and getOnlineUsers
\* contains it, on either storage.
C12_NewUserIsOnline ==
    UserCreated =>
        /\ sent.user.isOnline
        /\ \E i \in DOMAIN getOnlineUsers : getOnlineUsers[i].id = sent.user.id

\* This step answered a request of the given route.
Answers(op) == sent'.op = op /\ sent'.n # sent.n

\* C13: a PUT /api/users/:id/status for an id that no stored user carries is
\* acknowledged with success and leaves the four collections and the id
\* counters as they were.
C13_UnknownUserStatusIsNoOp ==
    [][(Answers("status") /\ ~Stored(sent'.req.userId)) =>
          /\ sent'.status = 200
          /\ sent'.success
          /\ store' = store]_vars

\* A status update for an unknown id was acknowledged while a stored user had
\* the other flag.
C13_Witness ==
    /\ sent.op = "status"
    /\ sent.status = 200
    /\ ~Stored(sent.req.userId)
    /\ \E i \in DOMAIN users : users[i].isOnline # sent.req.isOnline

\* The ids of the stored users whose online flag is set.
FlaggedOnline == {users[i].id : i \in {j \in DOMAIN users : users[j].isOnline}}

\* C14: GET /api/users/online answers with exactly the stored users whose
\* flag is set, each once; a status update sets the flag of its user to the
\* value sent, and no other step changes the flag of a stored user.
C14_OnlineUsersAreTheFlagged ==
    [][/\ Answers("online") =>
             /\ sent'.status = 200
             /\ {sent'.body[i] : i \in DOMAIN sent'.body}
                   = {users[i] : i \in {j \in DOMAIN users : users[j].isOnline}}
             /\ Len(sent'.body) = Cardinality(FlaggedOnline)
       /\ \A id \in UserIds : Stored(id) =>
             IF Answers("status") /\ sent'.req.userId = id
             THEN id \in FlaggedOnline' <=> sent'.req.isOnline
             ELSE id \in FlaggedOnline' <=> id \in FlaggedOnline]_vars

\* The online users were read on MemStorage, where users are created online,
\* after one of two users had been set offline.
C14_Witness ==
    /\ sent.op = "online"
    /\ backend = "mem"
    /\ Len(users) = 2
    /\ Len(sent.body) = 1

-----------------------------------------------------------------------------
(* POST /api/chats: the members *)

\* The last step answered POST /api/chats with the created chat.
ChatCreated == sent.op = "chat" /\ sent.status = 200

\* The memberIds of the request the last step answered, empty when absent.
RequestedMembers ==
    IF sent.req.hasMemberIds
    THEN {sent.req.memberIds[i] : i \in DOMAIN sent.req.memberIds}
    ELSE {}

\* C15: a chat created by a stored user with memberIds that all name stored
\* users is answered with the requested type and with the creator and the
\* listed users as its members, the creator exactly once.
C15_MembersAreCreatorAndListed ==
    (/\ ChatCreated
     /\ Stored(sent.req.createdBy)
     /\ \A id \in RequestedMembers : Stored(id)) =>
        /\ sent.body.type = sent.req.type
        /\ {sent.body.members[i].userId : i \in DOMAIN sent.body.members}
              = {sent.req.createdBy} \cup RequestedMembers
        /\ Cardinality({i \in DOMAIN sent.body.members :
                           sent.body.members[i].userId = sent.req.createdBy}) = 1

\* A chat was created whose memberIds list the creator and another stored
\* user.
C15_Witness ==
    /\ ChatCreated
    /\ sent.req.createdBy \in RequestedMembers
    /\ Cardinality(RequestedMembers) = 2
    /\ \A id \in RequestedMembers : Stored(id)
    /\ Len(sent.body.members) = 2

-----------------------------------------------------------------------------
(* Reading chats *)

ChatStored(chatId) == \E j \in DOMAIN chats : chats[j].id = chatId

\* The membership rows of the user whose chat is stored.
LiveRowsOfUser(userId) ==
    {k \in DOMAIN chatMembers :
        chatMembers[k].userId = userId /\ ChatStored(chatMembers[k].chatId)}

\* C16: a read of a chat id that is not stored is answered 404, not with an
\* error; a read of the chats of a user is answered with one assembled chat
\* for each membership row of the user whose chat is stored, the other rows
\* being dropped.
C16_MissingChatsAreAbsent ==
    /\ (sent.op = "getChat" /\ ~ChatStored(sent.req.chatId)) => sent.status = 404
    /\ sent.op = "userChats" =>
          /\ sent.status = 200
          /\ {sent.body[i].id : i \in DOMAIN sent.body}
                = {chatMembers[k].chatId : k \in LiveRowsOfUser(sent.req.userId)}
          /\ Len(sent.body) = Cardinality(LiveRowsOfUser(sent.req.userId))

\* The chats of a user were read while the user had a row of a chat that is
\* not stored and a row of one that is.
C16_Witness ==
    /\ sent.op = "userChats"
    /\ \E k \in DOMAIN chatMembers :
          chatMembers[k].userId = sent.req.userId /\ ~ChatStored(chatMembers[k].chatId)
    /\ Len(sent.body) >= 1

-----------------------------------------------------------------------------
(* Dangling references *)

\* The last step answered GET /api/chats/:chatId with a chat.
ChatRead == sent.op = "getChat" /\ sent.status = 200

\* A stored user, as a record.
IsStoredUser(user) == \E i \in DOMAIN users : users[i] = user

\* C17: every member of a chat read back carries a stored user, the members
\* being the rows of the chat whose user is stored; every message read back
\* carries a stored sender, and a read with the default limit answers with
\* the messages of the chat whose sender is stored.  No read is answered with
\* an error.
C17_NoDanglingUserSurfaces ==
    /\ sent.op = "getChat" => sent.status \in {200, 404}
    /\ ChatRead =>
          /\ \A i \in DOMAIN sent.body.members : IsStoredUser(sent.body.members[i].user)
          /\ {sent.body.members[i].id : i \in DOMAIN sent.body.members}
                = {chatMembers[k].id : k \in {j \in RowsOf(sent.req.chatId) :
                                                 Stored(chatMembers[j].userId)}}
          /\ sent.body.lastMessage.id # 0 => IsStoredUser(sent.body.lastMessage.sender)
    /\ sent.op = "messages" =>
          /\ sent.status = 200
          /\ \A i \in DOMAIN sent.body : IsStoredUser(sent.body[i].sender)
          /\ sent.req.limit = DefaultLimit =>
                {sent.body[i].id : i \in DOMAIN sent.body}
                   = {messages[k].id : k \in {j \in DOMAIN messages :
                         /\ messages[j].chatId = sent.req.chatId
                         /\ Stored(messages[j].senderId)}}

\* The messages of a chat were read while one of them had a sender that is
\* not stored, and another was returned.
C17_Witness ==
    /\ MessagesRead
    /\ ~SendersStored(sent.req.chatId)
    /\ Len(sent.body) >= 1

\* The most recently appended message of the chat, with its sender; NoMessage
\* when the chat has none.
MostRecent(chatId) ==
    LET s == WithSender(MessagesOf(chatId))
    IN IF s = <<>> THEN NoMessage ELSE s[Len(s)]

\* C19: the lastMessage of a chat read back is the most recently appended
\* message of the chat, and is absent only when the chat has no message.
\* Stated for chats whose messages carry distinct timestamps and stored
\* senders.
C19_LastMessageIsMostRecent ==
    (/\ ChatRead
     /\ SendersStored(sent.req.chatId)
     /\ DistinctTimes(sent.req.chatId)) =>
        sent.body.lastMessage = MostRecent(sent.req.chatId)

-----------------------------------------------------------------------------
(* The two storages *)

\* C18: the two storages answer alike.  The user a registration returns has
\* the online flag either storage gives a new user, and a read of the messages
\* of a chat is the list either storage returns for the stored messages.
C18_StoragesAnswerAlike ==
    /\ UserCreated =>
          /\ sent.user.isOnline = MemNewUser(sent.req.username).isOnline
          /\ sent.user.isOnline = DbNewUser(sent.req.username).isOnline
    /\ MessagesRead =>
          /\ sent.body = MemGetChatMessages(sent.req.chatId, sent.req.limit)
          /\ DbGetChatMessages(sent.req.chatId, sent.req.limit) = {sent.body}

-----------------------------------------------------------------------------
(* Finding a direct chat *)

\* The stored direct chats that the chats of user a contain and that have two
\* members with stored users, b among them.
DirectChatsFound(a, b) ==
    {chats[i].id : i \in {j \in DOMAIN chats :
        /\ chats[j].type = "direct"
        /\ \E k \in RowsOf(chats[j].id) : chatMembers[k].userId = a
        /\ \E k \in RowsOf(chats[j].id) : chatMembers[k].userId = b
        /\ Cardinality({k \in RowsOf(chats[j].id) : Stored(chatMembers[k].userId)}) = 2}}

\* C20: a POST /api/chats/direct {userId1, userId2} received while the chats
\* of userId1 hold a direct chat of two members with userId2 among them is
\* answered at once with such a chat, and leaves the four collections and the
\* id counters as they were.
C20_FoundDirectChangesNothing ==
    [][\A p \in Procs, a, b \in UserIds :
          (DirectStarts(p, a, b) /\ DirectChatsFound(a, b) # {}) =>
              /\ sent'.op = "direct" /\ sent'.proc = p /\ sent'.status = 200
              /\ sent'.body.id \in DirectChatsFound(a, b)
              /\ store' = store]_vars

\* A direct chat was returned to a request whose userId1 did not create it:
\* the request found it.
C20_Witness ==
    /\ sent.op = "direct" /\ sent.status = 200
    /\ sent.body.createdBy # sent.req.userId1
    /\ sent.body.id \in DirectChatsFound(sent.req.userId1, sent.req.userId2)

-----------------------------------------------------------------------------
(* Identifiers *)

\* Every row that the step adds to a collection has an id above every id the
\* collection held, and the ids the collection held are still there.
FreshIds(old, new) ==
    /\ \A i \in DOMAIN new : i > Len(old) => \A j \in DOMAIN old : new[i].id > old[j].id
    /\ {old[j].id : j \in DOMAIN old} \subseteq {new[i].id : i \in DOMAIN new}
    /\ \A i, j \in DOMAIN new : i # j => new[i].id # new[j].id

\* C21: in each of users, chats, chat members and messages, a created entity
\* gets an id greater than every id assigned before, so ids are unique and
\* never used again.
C21_IdsIncrease ==
    [][/\ FreshIds(users, users')
       /\ FreshIds(chats, chats')
       /\ FreshIds(chatMembers, chatMembers')
       /\ FreshIds(messages, messages')]_vars

\* Two entities of each kind have been created.
C21_Witness ==
    /\ Len(users) = 2 /\ Len(chats) = 2 /\ Len(chatMembers) >= 2 /\ Len(messages) = 2

-----------------------------------------------------------------------------
(* What the operations leave alone *)

\* C22: a stored message stays stored, with its chat id, sender id, content
\* and sent timestamp, whatever operation follows.
C22_MessagesAppendOnly ==
    [][\A i \in DOMAIN messages : \E j \in DOMAIN messages' : messages'[j] = messages[i]]_vars

\* A message was stored, then another, and a status update followed.
C22_Witness ==
    /\ Len(messages) = 2
    /\ sent.op = "status"

\* C23: a status update for a stored user sets that user's online flag and
\* may refresh its last-seen timestamp; the user's id and username, the other
\* users, the chats, the membership rows and the messages stay as they were.
\* No step removes a user.
C23_StatusChangesOneUser ==
    [][/\ (Answers("status") /\ Stored(sent'.req.userId)) =>
             /\ DOMAIN users' = DOMAIN users
             /\ \A i \in DOMAIN users :
                   IF users[i].id = sent'.req.userId
                   THEN /\ users'[i].id = users[i].id
                        /\ users'[i].username = users[i].username
                        /\ users'[i].isOnline = sent'.req.isOnline
                   ELSE users'[i] = users[i]
             /\ UNCHANGED <<chats, chatMembers, messages>>
       /\ \A i \in DOMAIN users : \E j \in DOMAIN users' :
             users'[j].id = users[i].id /\ users'[j].username = users[i].username]_vars

\* A status update of one of two stored users has left them with different
\* flags, while chats, rows and messages are stored.
C23_Witness ==
    /\ sent.op = "status" /\ Stored(sent.req.userId)
    /\ Len(users) = 2 /\ users[1].isOnline # users[2].isOnline
    /\ chats # <<>> /\ chatMembers # <<>> /\ messages # <<>>

-----------------------------------------------------------------------------
(* Repeated memberships *)

\* The membership rows of user userId in chat chatId.
RowsOfPair(chatId, userId) ==
    {i \in DOMAIN chatMembers :
        chatMembers[i].chatId = chatId /\ chatMembers[i].userId = userId}

\* The entries of getChatMembers(chatId) for user userId.
ListedOf(chatId, userId) ==
    {i \in DOMAIN getChatMembers(chatId) : getChatMembers(chatId)[i].userId = userId}

\* C24: addChatMember(chatId, userId) stores a row for the pair each time it
\* succeeds, and it succeeds when the pair has a row already; the rows of a
\* pair have distinct ids, and getChatMembers(chatId) lists a stored user
\* once per row.
C24_AddChatMemberTwiceStoresTwo ==
    sent.op = "addChatMember" =>
        LET c == sent.req.chatId
            u == sent.req.userId
        IN /\ (sent.status # 200) => RowsOfPair(c, u) = {}
           /\ (sent.status = 200) =>
                 /\ chatMembers # <<>>
                 /\ Len(chatMembers) \in RowsOfPair(c, u)
                 /\ chatMembers[Len(chatMembers)].id = currentChatMemberId - 1
           /\ \A i, j \in RowsOfPair(c, u) : i # j => chatMembers[i].id # chatMembers[j].id
           /\ Stored(u) => Cardinality(ListedOf(c, u)) = Cardinality(RowsOfPair(c, u))

\* addChatMember has answered for a pair that now has two rows, and the
\* members of the chat list the user twice.
C24_Witness ==
    /\ sent.op = "addChatMember" /\ sent.status = 200
    /\ Cardinality(RowsOfPair(sent.req.chatId, sent.req.userId)) = 2
    /\ Cardinality(ListedOf(sent.req.chatId, sent.req.userId)) = 2

-----------------------------------------------------------------------------
(* The chat a direct request returns *)

\* The user ids of the members the last response lists.
MembersReturned == {sent.body.members[i].userId : i \in DOMAIN sent.body.members}

\* C25: for stored users a # b, the chat that POST /api/chats/direct
\* {userId1: a, userId2: b} returns has type 'direct' and the members a and
\* b, no other.
C25_DirectReturnsThePair ==
    \A a, b \in UserIds :
        (a # b /\ Stored(a) /\ Stored(b) /\ DirectAnswered(a, b)) =>
            /\ sent.body.type = "direct"
            /\ MembersReturned = {a, b}

\* A direct chat of the pair was returned while both users belong to another
\* chat as well.
C25_Witness ==
    /\ sent.op = "direct" /\ sent.status = 200
    /\ sent.req.userId1 # sent.req.userId2
    /\ Stored(sent.req.userId1) /\ Stored(sent.req.userId2)
    /\ \E c \in ChatIds :
          /\ c # sent.body.id
          /\ RowsOfPair(c, sent.req.userId1) # {}
          /\ RowsOfPair(c, sent.req.userId2) # {}

\* C26: the chat that POST /api/chats/direct {userId1: a, userId2: a} returns
\* has no member other than a.
C26_SelfChatHasNoOtherMember ==
    \A a \in UserIds :
        (Stored(a) /\ DirectAnswered(a, a)) => MembersReturned \subseteq {a}

-----------------------------------------------------------------------------
(* How many messages a read returns *)

\* The messages of the chat whose sender is stored.
Resolvable(chatId) ==
    {i \in DOMAIN messages : messages[i].chatId = chatId /\ Stored(messages[i].senderId)}

\* C27: a read of the messages of chat c with a limit returns min(limit, R)
\* messages, R being the number of messages of c whose sender is stored.
C27_ReadReturnsMinLimitResolvable ==
    MessagesRead =>
        Len(sent.body) = Min({sent.req.limit, Cardinality(Resolvable(sent.req.chatId))})

-----------------------------------------------------------------------------
(* The chats of a user *)

\* C28: the list that getUserChats(userId) returns holds no chat id twice.
C28_UserChatsListsChatOnce ==
    sent.op = "userChats" =>
        \A i, j \in DOMAIN sent.body : i # j => sent.body[i].id # sent.body[j].id

-----------------------------------------------------------------------------
(* A direct request that fails *)

\* This step answers the direct request of slot p with an error.
DirectFails(p) ==
    /\ req[p].op = "direct"
    /\ Answers("direct") /\ sent'.proc = p /\ sent'.status = 500

\* C29: a POST /api/chats/direct that is answered with an error leaves no
\* chat and no membership row of its own behind: one that fails in createChat
\* stores nothing, and one that fails to add the second member leaves the
\* chat it created and the rows of that chat unstored.
C29_FailedDirectLeavesNothing ==
    [][\A p \in Procs :
          /\ (DirectFails(p) /\ pc[p] = "createChat") =>
                UNCHANGED <<chats, chatMembers>>
          /\ (DirectFails(p) /\ pc[p] = "direct_add") =>
                /\ \A i \in DOMAIN chats' : chats'[i].id # local[p].chatId
                /\ \A k \in DOMAIN chatMembers' : chatMembers'[k].chatId # local[p].chatId]_vars

-----------------------------------------------------------------------------
(* References *)

\* C30: every membership row names a stored chat and a stored user; every
\* message names a stored chat and a stored sender, and its sender has a
\* membership row in its chat.
C30_ReferencesHold ==
    /\ \A k \in DOMAIN chatMembers :
          ChatStored(chatMembers[k].chatId) /\ Stored(chatMembers[k].userId)
    /\ \A i \in DOMAIN messages :
          /\ ChatStored(messages[i].chatId)
          /\ Stored(messages[i].senderId)
          /\ RowsOfPair(messages[i].chatId, messages[i].senderId) # {}

=============================================================================
